---------------------------- MODULE Spec2Model ----------------------------
(***************************************************************************)
(* A model of three fragments of the game:                                 *)
(*   - the pseudo random generator (random_func.cpp): Randomizer::Next,    *)
(*     Randomizer::Next(limit), Randomizer::SetSeed, SetRandomSeed and     *)
(*     RandomBytesWithFallback;                                            *)
(*   - the rail tile accessors of rail_map.h.                              *)
(*                                                                         *)
(* A uint32_t is a pair <<hi, lo>> of 16-bit halves (TLC's integers are    *)
(* 32-bit signed, so a 32-bit unsigned word does not fit in one of them);  *)
(* every operation on words is carried out on the halves with the carries  *)
(* and wrap-arounds of the 32-bit (and, for the product, 64-bit) machine   *)
(* arithmetic.                                                             *)
(***************************************************************************)
EXTENDS Integers, Sequences, FiniteSets, TLC

VARIABLES
    state,        \* state[g][0], state[g][1]: Randomizer::state of generator g
    hist,         \* history: per generator, the last seed and the Next() calls since
    memo,         \* history: one remembered observation (seed, index, value)
    call,         \* the last completed call of the random API: op, gen, arg, ret
    platform,     \* which #if branch of RandomBytesWithFallback the build has
    pc,           \* per thread: position inside RandomBytesWithFallback
    buf,          \* per thread: the span handed to RandomBytesWithFallback
    res,          \* per thread: the local `res` of the platform call
    have_warned,  \* per thread: the local `have_warned`
    idx,          \* per thread: the loop variable `i`
    loc_s,        \* per thread: the local `s` of the inlined Randomizer::Next
    loc_t,        \* per thread: the local `t` of the inlined Randomizer::Next
    warned_once,  \* the function-local static std::atomic<bool>
    debug_out,    \* debug_out[level]: number of DEBUG(misc, level, ...) calls made
    ncalls,       \* per thread: number of RandomBytesWithFallback calls started
    tile,         \* the tile record _m[t] with its tile type and owner
    tcall,        \* the last completed call of a rail_map.h function
    aborted,      \* an assert() has failed: the program is gone
    nops          \* number of rail_map.h calls made

rngVars  == <<state, hist, memo, call>>
fbVars   == <<platform, pc, buf, res, have_warned, idx, loc_s, loc_t,
              warned_once, debug_out, ncalls>>
tileVars == <<tile, tcall, aborted, nops>>
vars     == <<state, hist, memo, call, platform, pc, buf, res, have_warned, idx,
              loc_s, loc_t, warned_once, debug_out, ncalls, tile, tcall, aborted,
              nops>>

---------------------------------------------------------------------------
(* Bounds of the model.                                                    *)

\* Next() calls made on one generator since it was last seeded.
MaxCalls == 2
\* RandomBytesWithFallback calls the single-threaded program makes.
MaxFallbackCalls == 1
\* RandomBytesWithFallback calls the concurrent callers make together.
MaxConcurrentCalls == 2
\* rail_map.h calls made in one behaviour.
MaxOps == 2

---------------------------------------------------------------------------
(* 32-bit words as <<hi, lo>>.                                             *)

Half == 65536

Word(hi, lo) == <<hi, lo>>

IsWord(w) == w[1] \in 0..(Half - 1) /\ w[2] \in 0..(Half - 1)

RECURSIVE BitXor(_, _)
\* a ^ b on naturals, bit by bit.
BitXor(a, b) ==
    IF a = 0 THEN b
    ELSE IF b = 0 THEN a
    ELSE ((a + b) % 2) + 2 * BitXor(a \div 2, b \div 2)

RECURSIVE BitAnd(_, _)
\* a & b on naturals, bit by bit.
BitAnd(a, b) ==
    IF a = 0 \/ b = 0 THEN 0
    ELSE ((a % 2) * (b % 2)) + 2 * BitAnd(a \div 2, b \div 2)

RECURSIVE BitOr(_, _)
\* a | b on naturals, bit by bit.
BitOr(a, b) ==
    IF a = 0 THEN b
    ELSE IF b = 0 THEN a
    ELSE (IF a % 2 = 1 \/ b % 2 = 1 THEN 1 ELSE 0) + 2 * BitOr(a \div 2, b \div 2)

\* uint32_t a ^ b.
Xor32(a, b) == <<BitXor(a[1], b[1]), BitXor(a[2], b[2])>>

\* uint32_t a + b, wrapping at 2^32.
Add32(a, b) ==
    LET lo == a[2] + b[2]
        hi == a[1] + b[1] + (lo \div Half)
    IN  <<hi % Half, lo % Half>>

\* uint32_t a - b, wrapping at 2^32.
Sub32(a, b) ==
    LET lo == a[2] - b[2]
        hi == a[1] - b[1] - (IF lo < 0 THEN 1 ELSE 0)
    IN  <<hi % Half, lo % Half>>

\* std::rotr(a, k) on a uint32_t, for 0 < k < 16.
Rotr32(a, k) ==
    <<(a[1] \div (2 ^ k)) + (a[2] % (2 ^ k)) * (2 ^ (16 - k)),
      (a[2] \div (2 ^ k)) + (a[1] % (2 ^ k)) * (2 ^ (16 - k))>>

\* The 32-bit product of two 16-bit halves, as <<hi, lo>>.
Mul16(x, y) ==
    LET xh == x \div 256
        xl == x % 256
        yh == y \div 256
        yl == y % 256
        cross == xh * yl + xl * yh
        t == xl * yl + (cross % 256) * 256
    IN  <<xh * yh + (cross \div 256) + (t \div Half), t % Half>>

\* (uint64_t)a * (uint64_t)b as four 16-bit limbs, most significant first.
Mul64(a, b) ==
    LET ll == Mul16(a[2], b[2])
        lh == Mul16(a[2], b[1])
        hl == Mul16(a[1], b[2])
        hh == Mul16(a[1], b[1])
        c1 == ll[1] + lh[2] + hl[2]
        c2 == lh[1] + hl[1] + hh[2] + (c1 \div Half)
        c3 == hh[1] + (c2 \div Half)
    IN  <<c3, c2 % Half, c1 % Half, ll[2]>>

\* uint32_t a * b: the product truncated to 32 bits.
Mul32(a, b) == LET p == Mul64(a, b) IN <<p[3], p[4]>>

\* a < b on uint32_t.
Less32(a, b) == a[1] < b[1] \/ (a[1] = b[1] /\ a[2] < b[2])

Zero32 == Word(0, 0)
One32  == Word(0, 1)

---------------------------------------------------------------------------
(* The inputs the model draws from.                                        *)

\* 0 (state[0] rotates to 0 and the decrement wraps), 0xFFFFFFFF (the sum
\* wraps), 0x1234567F (the xor gives 0).
SeedSamples == {Word(0, 0), Word(65535, 65535), Word(4660, 22143)}

\* Words a generator's state is drawn from when Next() is checked as a
\* function of any state: the seeds, 1, 8 (rotates to 1), 0x80000000.
StateSamples == SeedSamples \cup {Word(0, 1), Word(0, 8), Word(32768, 0)}

\* 0, 1, 6, 0x10000, 0xFFFFFFFF.
LimitSamples == {Word(0, 0), Word(0, 1), Word(0, 6), Word(1, 0), Word(65535, 65535)}

\* The seed and the limit the whole-program specification calls with.
ProgramSeeds == {Word(65535, 65535)}
ProgramLimits == {Word(0, 6)}

Generators == {"_random", "_interactive_random"}

Threads == {"main", "worker"}

Platforms == {"WIN32", "BSD", "GLIBC", "EMSCRIPTEN", "NONE"}

\* The sizes of the spans handed to RandomBytesWithFallback: empty, one byte,
\* and two bytes (the smallest a short read of getrandom needs).
BufSizes == {0, 1, 2}
ConcurrentBufSizes == {0, 1}

\* Bytes a random source may deliver.
ByteSamples == {0, 255}

NoArg == Word(0, 0)

\* A buffer cell is <<>> until it is written, then <<byte>>.
Unwritten == <<>>

---------------------------------------------------------------------------
(* Randomizer.                                                             *)

\* 0x1234567F
XorConst == Word(4660, 22143)
\* 0x1234567
SeedMul == Word(291, 17767)

\* The two state words of a Randomizer.
St(w0, w1) == [i \in {0, 1} |-> IF i = 0 THEN w0 ELSE w1]

\* state[0] after Next(), from the old s = state[0] and t = state[1].
NextState0(s, t) == Add32(Add32(s, Rotr32(Xor32(t, XorConst), 7)), One32)

\* state[1] after Next(), which is also the value returned.
NextState1(s, t) == Sub32(Rotr32(s, 3), One32)

\* A mutant of NextState: state[1] is computed from the new state[0].
NextState_FromNew(st) ==
    LET n0 == NextState0(st[0], st[1]) IN St(n0, NextState1(n0, st[1]))

\* Randomizer::Next as a function of the state.
NextState(st) == St(NextState0(st[0], st[1]), NextState1(st[0], st[1]))

\* A mutant of Scale: the product is truncated to 32 bits, not shifted.
Scale_Truncated(raw, limit) == Mul32(raw, limit)

\* ((uint64_t)raw * (uint64_t)limit) >> 32
Scale(raw, limit) == LET p == Mul64(raw, limit) IN Word(p[1], p[2])

\* A mutant of SeedState: only state[0] is written.
SeedState_FirstOnly(old, seed) == St(seed, old[1])

\* Randomizer::SetSeed as a function of the old state and the seed.
SeedState(old, seed) == St(seed, seed)

\* The single-threaded program makes its calls one after the other: no call
\* of the random API starts inside a running RandomBytesWithFallback.
NoCallRunning == \A t \in Threads : pc[t] \in {"idle", "returned"}

\* History: nothing remembered yet.
NoMemo(on) ==
    [on |-> on, gen |-> "", fresh |-> TRUE, seed |-> Zero32, n |-> 0, val |-> Zero32]

\* History: a reseed of the generators gs makes a remembered observation of one
\* of them an observation of an earlier run.
Reseeded(gs) == IF memo.gen \in gs THEN [memo EXCEPT !.fresh = FALSE] ELSE memo

\* History: the observation a Next() call on g, returning v, may leave in memo
\* (where the history is kept at all: memo.on).
Observed(g, v) ==
    IF memo.on /\ hist[g].seeded
    THEN {memo, [on |-> TRUE, gen |-> g, fresh |-> TRUE, seed |-> hist[g].seed,
                 n |-> hist[g].n + 1, val |-> v]}
    ELSE {memo}

\* uint32_t Randomizer::Next()
RandomizerNext(g) ==
    /\ NoCallRunning
    /\ hist[g].n < MaxCalls
    /\ state' = [state EXCEPT ![g] = NextState(state[g])]
    /\ call' = [op |-> "Next", gen |-> g, arg |-> NoArg, ret |-> state'[g][1]]
    /\ hist' = [hist EXCEPT ![g].n = @ + 1]
    /\ memo' \in Observed(g, state'[g][1])
    /\ UNCHANGED <<fbVars, tileVars>>

\* uint32_t Randomizer::Next(uint32_t limit)
RandomizerNextLimit(g, limit) ==
    /\ NoCallRunning
    /\ hist[g].n < MaxCalls
    /\ state' = [state EXCEPT ![g] = NextState(state[g])]
    /\ call' = [op |-> "NextLimit", gen |-> g, arg |-> limit,
                ret |-> Scale(state'[g][1], limit)]
    /\ hist' = [hist EXCEPT ![g].n = @ + 1]
    /\ UNCHANGED <<memo, fbVars, tileVars>>

\* void Randomizer::SetSeed(uint32_t seed)
RandomizerSetSeed(g, seed) ==
    /\ NoCallRunning
    /\ state' = [state EXCEPT ![g] = SeedState(state[g], seed)]
    /\ call' = [op |-> "SetSeed", gen |-> g, arg |-> seed, ret |-> NoArg]
    /\ hist' = [hist EXCEPT ![g] = [seeded |-> TRUE, seed |-> seed, n |-> 0]]
    /\ memo' = Reseeded({g})
    /\ UNCHANGED <<fbVars, tileVars>>

\* A mutant of SetRandomSeed: both generators get the same seed.
SetRandomSeed_SameSeed(seed) ==
    /\ NoCallRunning
    /\ state' = [g \in Generators |-> SeedState(state[g], seed)]
    /\ call' = [op |-> "SetRandomSeed", gen |-> "", arg |-> seed, ret |-> NoArg]
    /\ hist' = [g \in Generators |-> [seeded |-> TRUE, seed |-> seed, n |-> 0]]
    /\ memo' = Reseeded(Generators)
    /\ UNCHANGED <<fbVars, tileVars>>

\* void SetRandomSeed(uint32_t seed)
SetRandomSeed(seed) ==
    /\ NoCallRunning
    /\ state' = [g \in Generators |->
                   IF g = "_random"
                   THEN SeedState(state[g], seed)
                   ELSE SeedState(state[g], Mul32(seed, SeedMul))]
    /\ call' = [op |-> "SetRandomSeed", gen |-> "", arg |-> seed, ret |-> NoArg]
    /\ hist' = [g \in Generators |->
                   [seeded |-> TRUE,
                    seed |-> IF g = "_random" THEN seed ELSE Mul32(seed, SeedMul),
                    n |-> 0]]
    /\ memo' = Reseeded(Generators)
    /\ UNCHANGED <<fbVars, tileVars>>

---------------------------------------------------------------------------
(* RandomBytesWithFallback(std::span<uint8_t> buf), one step at a time.    *)

\* The buffers of size n whose first k cells a random source has written.
Written(old, k) ==
    {[i \in 1..Len(old) |-> IF i <= k THEN <<f[i]>> ELSE old[i]] :
        f \in [1..k -> ByteSamples]}

\* if (res > 0 && static_cast<size_t>(res) == buf.size()) return;
GlibcDone(r, size) == r > 0 /\ r = size

\* The caller hands in a span of n bytes it has not written.
Begin(t, n) ==
    /\ pc[t] \in {"idle", "returned"}
    /\ ncalls' = [ncalls EXCEPT ![t] = @ + 1]
    /\ pc' = [pc EXCEPT ![t] = "platform"]
    /\ buf' = [buf EXCEPT ![t] = [i \in 1..n |-> Unwritten]]
    /\ res' = [res EXCEPT ![t] = 0]
    /\ have_warned' = [have_warned EXCEPT ![t] = FALSE]
    /\ idx' = [idx EXCEPT ![t] = 0]
    /\ UNCHANGED <<platform, loc_s, loc_t, warned_once, debug_out, rngVars, tileVars>>

\* BCryptGenRandom: res >= 0 and the buffer filled, or res < 0.
PlatformWin32(t) ==
    /\ pc[t] = "platform" /\ platform = "WIN32"
    /\ \/ /\ buf' \in {[buf EXCEPT ![t] = b] : b \in Written(buf[t], Len(buf[t]))}
          /\ res' = [res EXCEPT ![t] = 0]
          /\ pc' = [pc EXCEPT ![t] = "returned"]
       \/ /\ res' = [res EXCEPT ![t] = -1]
          /\ pc' = [pc EXCEPT ![t] = "exchange"]
          /\ UNCHANGED buf
    /\ UNCHANGED <<platform, have_warned, idx, loc_s, loc_t, warned_once, debug_out,
                   ncalls, rngVars, tileVars>>

\* arc4random_buf: always fills the buffer.
PlatformBsd(t) ==
    /\ pc[t] = "platform" /\ platform = "BSD"
    /\ buf' \in {[buf EXCEPT ![t] = b] : b \in Written(buf[t], Len(buf[t]))}
    /\ pc' = [pc EXCEPT ![t] = "returned"]
    /\ UNCHANGED <<platform, res, have_warned, idx, loc_s, loc_t, warned_once,
                   debug_out, ncalls, rngVars, tileVars>>

\* getrandom: -1, or the number of bytes written, which may be short.
PlatformGlibc(t) ==
    /\ pc[t] = "platform" /\ platform = "GLIBC"
    /\ \E r \in -1..Len(buf[t]) :
          /\ res' = [res EXCEPT ![t] = r]
          /\ buf' \in {[buf EXCEPT ![t] = b] :
                         b \in Written(buf[t], IF r < 0 THEN 0 ELSE r)}
          /\ pc' = [pc EXCEPT ![t] =
                      IF GlibcDone(r, Len(buf[t])) THEN "returned" ELSE "exchange"]
    /\ UNCHANGED <<platform, have_warned, idx, loc_s, loc_t, warned_once, debug_out,
                   ncalls, rngVars, tileVars>>

\* window.crypto: absent (-1), or the buffer filled (1).
PlatformEmscripten(t) ==
    /\ pc[t] = "platform" /\ platform = "EMSCRIPTEN"
    /\ \/ /\ buf' \in {[buf EXCEPT ![t] = b] : b \in Written(buf[t], Len(buf[t]))}
          /\ res' = [res EXCEPT ![t] = 1]
          /\ pc' = [pc EXCEPT ![t] = "returned"]
       \/ /\ res' = [res EXCEPT ![t] = -1]
          /\ pc' = [pc EXCEPT ![t] = "exchange"]
          /\ UNCHANGED buf
    /\ UNCHANGED <<platform, have_warned, idx, loc_s, loc_t, warned_once, debug_out,
                   ncalls, rngVars, tileVars>>

\* No cryptographically-strong generator in the build: straight to the fallback.
PlatformNone(t) ==
    /\ pc[t] = "platform" /\ platform = "NONE"
    /\ pc' = [pc EXCEPT ![t] = "exchange"]
    /\ UNCHANGED <<platform, buf, res, have_warned, idx, loc_s, loc_t, warned_once,
                   debug_out, ncalls, rngVars, tileVars>>

\* A mutant of Exchange: a plain load; the flag is never set.
Exchange_LoadOnly(t) ==
    /\ pc[t] = "exchange"
    /\ have_warned' = [have_warned EXCEPT ![t] = warned_once]
    /\ pc' = [pc EXCEPT ![t] = "debug"]
    /\ UNCHANGED <<platform, buf, res, idx, loc_s, loc_t, warned_once, debug_out,
                   ncalls, rngVars, tileVars>>

\* bool have_warned = warned_once.exchange(true);
Exchange(t) ==
    /\ pc[t] = "exchange"
    /\ have_warned' = [have_warned EXCEPT ![t] = warned_once]
    /\ warned_once' = TRUE
    /\ pc' = [pc EXCEPT ![t] = "debug"]
    /\ UNCHANGED <<platform, buf, res, idx, loc_s, loc_t, debug_out, ncalls,
                   rngVars, tileVars>>

\* DEBUG(misc, have_warned ? 1 : 0, ...)
Debug(t) ==
    /\ pc[t] = "debug"
    /\ debug_out' = [debug_out EXCEPT ![IF have_warned[t] THEN 1 ELSE 0] = @ + 1]
    /\ pc' = [pc EXCEPT ![t] = "loop"]
    /\ UNCHANGED <<platform, buf, res, have_warned, idx, loc_s, loc_t, warned_once,
                   ncalls, rngVars, tileVars>>

\* A mutant of LoopMore: the loop stops one byte early.
LoopMore_OneShort(i, size) == i + 1 < size

\* i < buf.size()
LoopMore(i, size) == i < size

\* The generator the fallback draws from: InteractiveRandom() is
\* _interactive_random.Next().
FallbackGenerator == "_interactive_random"

\* for (...; i < buf.size(); ...), then the first load of the inlined Next():
\* s = state[0]. When the loop is over the function returns.
LoopLoadS(t) ==
    /\ pc[t] = "loop"
    /\ IF LoopMore(idx[t], Len(buf[t]))
       THEN /\ loc_s' = [loc_s EXCEPT ![t] = state[FallbackGenerator][0]]
            /\ pc' = [pc EXCEPT ![t] = "load_t"]
            /\ UNCHANGED loc_t
       ELSE /\ pc' = [pc EXCEPT ![t] = "returned"]
            /\ loc_s' = [loc_s EXCEPT ![t] = Zero32]
            /\ loc_t' = [loc_t EXCEPT ![t] = Zero32]
    /\ UNCHANGED <<platform, buf, res, have_warned, idx, warned_once, debug_out,
                   ncalls, rngVars, tileVars>>

\* t = state[1]
LoadT(t) ==
    /\ pc[t] = "load_t"
    /\ loc_t' = [loc_t EXCEPT ![t] = state[FallbackGenerator][1]]
    /\ pc' = [pc EXCEPT ![t] = "store0"]
    /\ UNCHANGED <<platform, buf, res, have_warned, idx, loc_s, warned_once,
                   debug_out, ncalls, rngVars, tileVars>>

\* state[0] = s + std::rotr(t ^ 0x1234567F, 7) + 1
Store0(t) ==
    /\ pc[t] = "store0"
    /\ state' = [state EXCEPT ![FallbackGenerator][0] = NextState0(loc_s[t], loc_t[t])]
    /\ pc' = [pc EXCEPT ![t] = "store1"]
    /\ UNCHANGED <<platform, buf, res, have_warned, idx, loc_s, loc_t, warned_once,
                   debug_out, ncalls, hist, memo, call, tileVars>>

\* state[1] = std::rotr(s, 3) - 1, and
\* buf[i] = static_cast<uint8_t>(SimpleHash64(current_time ^ InteractiveRandom())):
\* the steady clock's reading is free, so the byte is any byte.
Store1(t) ==
    /\ pc[t] = "store1"
    /\ state' = [state EXCEPT ![FallbackGenerator][1] = NextState1(loc_s[t], loc_t[t])]
    /\ hist' = [hist EXCEPT ![FallbackGenerator].n = @ + 1]
    /\ \E b \in ByteSamples : buf' = [buf EXCEPT ![t][idx[t] + 1] = <<b>>]
    /\ idx' = [idx EXCEPT ![t] = @ + 1]
    /\ pc' = [pc EXCEPT ![t] = "loop"]
    /\ UNCHANGED <<platform, res, have_warned, loc_s, loc_t, warned_once, debug_out,
                   ncalls, memo, call, tileVars>>

\* One step of thread t inside RandomBytesWithFallback.
FallbackStep(t) ==
    \/ PlatformWin32(t)
    \/ PlatformBsd(t)
    \/ PlatformGlibc(t)
    \/ PlatformEmscripten(t)
    \/ PlatformNone(t)
    \/ Exchange(t)
    \/ Debug(t)
    \/ LoopLoadS(t)
    \/ LoadT(t)
    \/ Store0(t)
    \/ Store1(t)

---------------------------------------------------------------------------
(* rail_map.h: the accessors of a rail tile. A tile is the record           *)
(* [type, owner, m2, m3, m4, m5]; every function below takes the tile       *)
(* record m that _m[t] holds and gives the value read or the record left.   *)

RAIL_TYPE_NORMAL         == 0
RAIL_TYPE_SIGNALS        == 64
RAIL_TYPE_UNUSED         == 128
RAIL_TYPE_DEPOT_WAYPOINT == 192
RAIL_TILE_TYPE_MASK      == 192

RAIL_SUBTYPE_DEPOT    == 0
RAIL_SUBTYPE_WAYPOINT == 4
RAIL_SUBTYPE_MASK     == 60

TRACK_X == 0
TRACK_Y == 1
TRACK_BIT_X == 1
TRACK_BIT_Y == 2

\* GB(x, s, n): (x >> s) & ((1 << n) - 1)
GB(x, s, n) == BitAnd(x \div (2 ^ s), (2 ^ n) - 1)

\* SB(x, s, n, d): x = (x & ~(((1 << n) - 1) << s)) | (d << s), stored in a byte.
SB(x, s, n, d) ==
    LET mask == ((2 ^ n) - 1) * (2 ^ s)
    IN  BitOr(x - BitAnd(x, mask), d * (2 ^ s)) % 256

\* HASBIT(x, y): (x & (1 << y)) != 0
HASBIT(x, y) == BitAnd(x, 2 ^ y) # 0

\* SETBIT(x, y): x |= (1 << y)
SETBIT(x, y) == BitOr(x, 2 ^ y)

\* CLRBIT(x, y): x &= ~(1 << y)
CLRBIT(x, y) == x - BitAnd(x, 2 ^ y)

\* IsTileType(t, type)
IsTileType(m, type) == m.type = type

\* assert(IsTileType(t, MP_RAILWAY)); return _m[t].m5 & RAIL_TILE_TYPE_MASK;
GetRailTileType(m) == BitAnd(m.m5, RAIL_TILE_TYPE_MASK)

\* A mutant of GetRailTypeOnBridge: it reads the bits of GetRailType.
GetRailTypeOnBridge_LowNibble(m) == GB(m.m3, 0, 4)

GetRailType(m)         == GB(m.m3, 0, 4)
GetRailTypeCrossing(m) == GB(m.m4, 0, 4)
GetRailTypeOnBridge(m) == GB(m.m3, 4, 4)

SetRailType(m, r)         == [m EXCEPT !.m3 = SB(@, 0, 4, r)]
SetRailTypeCrossing(m, r) == [m EXCEPT !.m4 = SB(@, 0, 4, r)]
SetRailTypeOnBridge(m, r) == [m EXCEPT !.m3 = SB(@, 4, 4, r)]

GetTrackBits(m) == GB(m.m5, 0, 6)

\* A mutant of SetTrackBits: the field is taken eight bits wide.
SetTrackBits_WholeByte(m, b) == [m EXCEPT !.m5 = SB(@, 0, 8, b)]

SetTrackBits(m, b) == [m EXCEPT !.m5 = SB(@, 0, 6, b)]

GetRailDepotDirection(m) == GB(m.m5, 0, 2)
GetRailWaypointTrack(m)  == IF HASBIT(m.m5, 0) THEN TRACK_Y ELSE TRACK_X
GetRailWaypointBits(m)   == IF BitAnd(m.m5, 1) # 0 THEN TRACK_BIT_Y ELSE TRACK_BIT_X

SetCustomWaypointSprite(m)   == [m EXCEPT !.m3 = SETBIT(@, 4)]
ClearCustomWaypointSprite(m) == [m EXCEPT !.m3 = CLRBIT(@, 4)]

\* assert(GetRailTileType(t) == RAIL_TYPE_SIGNALS), with the assert of
\* GetRailTileType inside it.
SignalsAsserted(m) ==
    IsTileType(m, "MP_RAILWAY") /\ GetRailTileType(m) = RAIL_TYPE_SIGNALS

GetSignalType(m)    == GB(m.m4, 0, 2)
SetSignalType(m, s) == [m EXCEPT !.m4 = SB(@, 0, 2, s)]

GetSignalVariant(m)    == GB(m.m4, 2, 1)
SetSignalVariant(m, v) == [m EXCEPT !.m4 = SB(@, 2, 1, v)]

\* A mutant of MakeRailDepot: the subtype of a waypoint is written.
MakeRailDepot_AsWaypoint(m, o, d, r) ==
    [type |-> "MP_RAILWAY", owner |-> o, m2 |-> 0, m3 |-> r, m4 |-> 0,
     m5 |-> BitOr(BitOr(RAIL_TYPE_DEPOT_WAYPOINT, RAIL_SUBTYPE_WAYPOINT), d)]

MakeRailNormal(m, o, b, r) ==
    [type |-> "MP_RAILWAY", owner |-> o, m2 |-> 0, m3 |-> r, m4 |-> 0,
     m5 |-> BitOr(RAIL_TYPE_NORMAL, b)]

MakeRailDepot(m, o, d, r) ==
    [type |-> "MP_RAILWAY", owner |-> o, m2 |-> 0, m3 |-> r, m4 |-> 0,
     m5 |-> BitOr(BitOr(RAIL_TYPE_DEPOT_WAYPOINT, RAIL_SUBTYPE_DEPOT), d)]

MakeRailWaypoint(m, o, a, r, index) ==
    [type |-> "MP_RAILWAY", owner |-> o, m2 |-> index, m3 |-> r, m4 |-> 0,
     m5 |-> BitOr(BitOr(RAIL_TYPE_DEPOT_WAYPOINT, RAIL_SUBTYPE_WAYPOINT), a)]

\* One call of a rail_map.h function on the tile: when its asserts hold it
\* leaves the tile `after` and returns `ret`; a failed assert ends the program
\* with the tile as it was.
Call(op, arg, asserted, after, ret) ==
    /\ ~aborted
    /\ nops < MaxOps
    /\ nops' = nops + 1
    /\ tcall' = [op |-> op, arg |-> arg, ret |-> IF asserted THEN ret ELSE 0]
    /\ aborted' = ~asserted
    /\ tile' = IF asserted THEN after ELSE tile
    /\ UNCHANGED <<rngVars, fbVars>>

CallGetRailTileType ==
    Call("GetRailTileType", 0, IsTileType(tile, "MP_RAILWAY"), tile, GetRailTileType(tile))
CallGetRailType == Call("GetRailType", 0, TRUE, tile, GetRailType(tile))
CallGetRailTypeCrossing ==
    Call("GetRailTypeCrossing", 0, TRUE, tile, GetRailTypeCrossing(tile))
CallGetRailTypeOnBridge ==
    Call("GetRailTypeOnBridge", 0, TRUE, tile, GetRailTypeOnBridge(tile))
CallSetRailType(r) == Call("SetRailType", r, TRUE, SetRailType(tile, r), 0)
CallSetRailTypeCrossing(r) ==
    Call("SetRailTypeCrossing", r, TRUE, SetRailTypeCrossing(tile, r), 0)
CallSetRailTypeOnBridge(r) ==
    Call("SetRailTypeOnBridge", r, TRUE, SetRailTypeOnBridge(tile, r), 0)
CallGetTrackBits == Call("GetTrackBits", 0, TRUE, tile, GetTrackBits(tile))
CallSetTrackBits(b) == Call("SetTrackBits", b, TRUE, SetTrackBits(tile, b), 0)
CallGetRailDepotDirection ==
    Call("GetRailDepotDirection", 0, TRUE, tile, GetRailDepotDirection(tile))
CallGetRailWaypointTrack ==
    Call("GetRailWaypointTrack", 0, TRUE, tile, GetRailWaypointTrack(tile))
CallGetRailWaypointBits ==
    Call("GetRailWaypointBits", 0, TRUE, tile, GetRailWaypointBits(tile))
CallSetCustomWaypointSprite ==
    Call("SetCustomWaypointSprite", 0, TRUE, SetCustomWaypointSprite(tile), 0)
CallClearCustomWaypointSprite ==
    Call("ClearCustomWaypointSprite", 0, TRUE, ClearCustomWaypointSprite(tile), 0)
CallGetSignalType ==
    Call("GetSignalType", 0, SignalsAsserted(tile), tile, GetSignalType(tile))
CallSetSignalType(s) ==
    Call("SetSignalType", s, SignalsAsserted(tile), SetSignalType(tile, s), 0)
CallGetSignalVariant == Call("GetSignalVariant", 0, TRUE, tile, GetSignalVariant(tile))
CallSetSignalVariant(v) ==
    Call("SetSignalVariant", v, TRUE, SetSignalVariant(tile, v), 0)
CallMakeRailNormal(o, b, r) ==
    Call("MakeRailNormal", <<o, b, r>>, TRUE, MakeRailNormal(tile, o, b, r), 0)
CallMakeRailDepot(o, d, r) ==
    Call("MakeRailDepot", <<o, d, r>>, TRUE, MakeRailDepot(tile, o, d, r), 0)
CallMakeRailWaypoint(o, a, r, index) ==
    Call("MakeRailWaypoint", <<o, a, r, index>>, TRUE,
         MakeRailWaypoint(tile, o, a, r, index), 0)

\* The arguments the tile functions are called with.
\* Track bits: none, TRACK_BIT_X, alternating bits both ways, TRACK_BIT_ALL.
TrackBitsSamples == {0, 1, 21, 42, 63}
\* Values of a four-bit rail type field.
RailTypeSamples  == {0, 5, 10, 15}
\* RAILTYPE_RAIL and RAILTYPE_MAGLEV, the ends of the enumeration.
RailTypes        == {0, 3}
SignalTypes      == 0..3
SignalVariants   == 0..1
DiagDirections   == 0..3
Axes             == 0..1
Owners           == {16}
WaypointIndexes  == {0, 513}

\* What a tile may hold before a call: any tile type's bytes.
TileSamples ==
    [type : {"MP_RAILWAY", "MP_STREET"}, owner : {0}, m2 : {513},
     m3 : {90, 165}, m4 : {90, 165}, m5 : {21, 127, 191, 194, 197}]

---------------------------------------------------------------------------
(* Initial states.                                                         *)

InitRandomizers ==
    /\ state = [g \in Generators |-> St(Zero32, Zero32)]
    /\ hist = [g \in Generators |-> [seeded |-> FALSE, seed |-> Zero32, n |-> 0]]
    /\ memo = NoMemo(FALSE)
    /\ call = [op |-> "none", gen |-> "", arg |-> NoArg, ret |-> NoArg]

InitFallback ==
    /\ pc = [t \in Threads |-> "idle"]
    /\ buf = [t \in Threads |-> <<>>]
    /\ res = [t \in Threads |-> 0]
    /\ have_warned = [t \in Threads |-> FALSE]
    /\ idx = [t \in Threads |-> 0]
    /\ loc_s = [t \in Threads |-> Zero32]
    /\ loc_t = [t \in Threads |-> Zero32]
    /\ warned_once = FALSE
    /\ debug_out = [l \in {0, 1} |-> 0]
    /\ ncalls = [t \in Threads |-> 0]

InitTileIdle ==
    /\ tile = [type |-> "MP_RAILWAY", owner |-> 0, m2 |-> 0, m3 |-> 0, m4 |-> 0, m5 |-> 0]
    /\ tcall = [op |-> "none", arg |-> 0, ret |-> 0]
    /\ aborted = FALSE
    /\ nops = 0

---------------------------------------------------------------------------
(* The single-threaded program: the random API and RandomBytesWithFallback, *)
(* one call after the other.                                                *)

Init ==
    /\ InitRandomizers
    /\ InitFallback
    /\ platform \in Platforms
    /\ InitTileIdle

Next ==
    \/ \E g \in Generators : RandomizerNext(g)
    \/ \E g \in Generators : \E limit \in ProgramLimits : RandomizerNextLimit(g, limit)
    \/ \E g \in Generators : \E seed \in ProgramSeeds : RandomizerSetSeed(g, seed)
    \/ \E seed \in ProgramSeeds : SetRandomSeed(seed)
    \/ \E n \in BufSizes : ncalls["main"] < MaxFallbackCalls /\ Begin("main", n)
    \/ FallbackStep("main")

Spec == Init /\ [][Next]_vars

---------------------------------------------------------------------------
(* Randomizer::Next and Next(limit) as functions of any generator state.   *)

InitNext ==
    /\ state \in {[g \in Generators |-> IF g = "_random" THEN St(a, b) ELSE St(b, a)] :
                    a \in StateSamples, b \in StateSamples}
    /\ hist = [g \in Generators |-> [seeded |-> FALSE, seed |-> Zero32, n |-> 0]]
    /\ memo = NoMemo(FALSE)
    /\ call = [op |-> "none", gen |-> "", arg |-> NoArg, ret |-> NoArg]
    /\ InitFallback
    /\ platform = "NONE"
    /\ InitTileIdle

NextNext ==
    \/ \E g \in Generators : RandomizerNext(g)
    \/ \E g \in Generators : \E limit \in LimitSamples : RandomizerNextLimit(g, limit)

SpecNext == InitNext /\ [][NextNext]_vars

---------------------------------------------------------------------------
(* Seeding and reseeding, with the history of observations kept.           *)

InitSeed ==
    /\ state = [g \in Generators |-> St(Zero32, Zero32)]
    /\ hist = [g \in Generators |-> [seeded |-> FALSE, seed |-> Zero32, n |-> 0]]
    /\ memo = NoMemo(TRUE)
    /\ call = [op |-> "none", gen |-> "", arg |-> NoArg, ret |-> NoArg]
    /\ InitFallback
    /\ platform = "NONE"
    /\ InitTileIdle

NextSeed ==
    \/ \E g \in Generators : RandomizerNext(g)
    \/ \E g \in Generators : \E limit \in ProgramLimits : RandomizerNextLimit(g, limit)
    \/ \E g \in Generators : \E seed \in SeedSamples : RandomizerSetSeed(g, seed)
    \/ \E seed \in SeedSamples : SetRandomSeed(seed)

SpecSeed == InitSeed /\ [][NextSeed]_vars

---------------------------------------------------------------------------
(* RandomBytesWithFallback alone, called by one thread.                    *)

NextFallback ==
    \/ \E n \in BufSizes : ncalls["main"] < MaxFallbackCalls /\ Begin("main", n)
    \/ FallbackStep("main")

SpecFallback == Init /\ [][NextFallback]_vars

---------------------------------------------------------------------------
(* The rail tile functions, called on a tile that may hold anything.       *)

InitTile ==
    /\ InitRandomizers
    /\ InitFallback
    /\ platform = "NONE"
    /\ tile \in TileSamples
    /\ tcall = [op |-> "none", arg |-> 0, ret |-> 0]
    /\ aborted = FALSE
    /\ nops = 0

NextTile ==
    \/ CallGetRailTileType
    \/ CallGetRailType
    \/ CallGetRailTypeCrossing
    \/ CallGetRailTypeOnBridge
    \/ \E r \in RailTypeSamples : CallSetRailType(r)
    \/ \E r \in RailTypeSamples : CallSetRailTypeCrossing(r)
    \/ \E r \in RailTypeSamples : CallSetRailTypeOnBridge(r)
    \/ CallGetTrackBits
    \/ \E b \in TrackBitsSamples : CallSetTrackBits(b)
    \/ CallGetRailDepotDirection
    \/ CallGetRailWaypointTrack
    \/ CallGetRailWaypointBits
    \/ CallSetCustomWaypointSprite
    \/ CallClearCustomWaypointSprite
    \/ CallGetSignalType
    \/ \E st \in SignalTypes : CallSetSignalType(st)
    \/ CallGetSignalVariant
    \/ \E v \in SignalVariants : CallSetSignalVariant(v)
    \/ \E o \in Owners : \E b \in {1, 63} : \E r \in RailTypes :
          CallMakeRailNormal(o, b, r)
    \/ \E o \in Owners : \E d \in DiagDirections : CallMakeRailDepot(o, d, 3)
    \/ \E o \in Owners : \E a \in Axes : \E index \in WaypointIndexes :
          CallMakeRailWaypoint(o, a, 1, index)

SpecTile == InitTile /\ [][NextTile]_vars

---------------------------------------------------------------------------
(* Concurrent callers of RandomBytesWithFallback, each with its own buffer. *)

NextConcurrent ==
    \E t \in Threads :
        \/ \E n \in ConcurrentBufSizes :
              ncalls["main"] + ncalls["worker"] < MaxConcurrentCalls /\ Begin(t, n)
        \/ FallbackStep(t)

SpecConcurrent == Init /\ [][NextConcurrent]_vars

---------------------------------------------------------------------------
(* The recurrence of the specification, stated on the 32 bits of a word,    *)
(* apart from the half-word arithmetic the model of the code uses. (The    *)
(* claims bind each intermediate word with \E x \in {e}, which makes TLC    *)
(* evaluate e once.)                                                       *)

\* Bit i (0 the least significant) of word w.
BitOf(w, i) ==
    IF i < 16 THEN (w[2] \div (2 ^ i)) % 2 ELSE (w[1] \div (2 ^ (i - 16))) % 2

RECURSIVE Weigh(_, _, _)
\* The number whose bits, least significant first, are f[lo], ..., f[hi].
Weigh(f, lo, hi) == IF lo > hi THEN 0 ELSE f[lo] + 2 * Weigh(f, lo + 1, hi)

\* The word with bits f[0], ..., f[31].
FromBits(f) == Word(Weigh(f, 16, 31), Weigh(f, 0, 15))

\* rotr32(w, k): bit i of the result is bit (i + k) mod 32 of w.
RotrRef(w, k) == FromBits([i \in 0..31 |-> BitOf(w, (i + k) % 32)])

\* a XOR b.
XorRef(a, b) == FromBits([i \in 0..31 |-> IF BitOf(a, i) = BitOf(b, i) THEN 0 ELSE 1])

RECURSIVE CarryInto(_, _, _)
\* The carry into bit i of a + b.
CarryInto(a, b, i) ==
    IF i = 0 THEN 0
    ELSE (BitOf(a, i - 1) + BitOf(b, i - 1) + CarryInto(a, b, i - 1)) \div 2

\* (a + b) mod 2^32.
AddRef(a, b) ==
    FromBits([i \in 0..31 |-> (BitOf(a, i) + BitOf(b, i) + CarryInto(a, b, i)) % 2])

\* (a - 1) mod 2^32.
DecRef(a) ==
    IF a = Word(0, 0) THEN Word(65535, 65535)
    ELSE IF a[2] > 0 THEN Word(a[1], a[2] - 1)
    ELSE Word(a[1] - 1, 65535)

---------------------------------------------------------------------------
(* Claims.                                                                 *)

\* C1: Randomizer::Next(limit) returns the upper 32 bits of the 64-bit product
\* Next() * limit, a value r with 0 <= r < limit whenever limit > 0, and
\* advances the generator it is called on by exactly one Next() step, leaving
\* the other generator alone.
C1_NextLimitInRange ==
    [][call'.op = "NextLimit" =>
        LET g == call'.gen
            limit == call'.arg
            r == call'.ret
        IN  /\ IsWord(r)
            /\ Less32(Zero32, limit) => Less32(r, limit)
            /\ \E product \in {Mul64(state'[g][1], limit)} :
                   r = Word(product[1], product[2])
            /\ state'[g] = NextState(state[g])
            /\ \A h \in Generators \ {g} : state'[h] = state[h]]_vars

\* C1 witness: Next(0xFFFFFFFF) on a generator whose Next() was 0xFFFFFFFF
\* returned 0xFFFFFFFE, the largest value below the largest limit.
C1_Witness ==
    /\ call.op = "NextLimit"
    /\ call.arg = Word(65535, 65535)
    /\ call.ret = Word(65535, 65534)
    /\ state[call.gen][1] = Word(65535, 65535)

\* C2: after SetSeed(s) the n-th value Next() returns depends on s and n only:
\* whenever a Next() call returns the n-th value after a seed s, it is the value
\* any generator returned at index n after seed s at any earlier time (in
\* particular the same generator before it was reseeded with s), and two
\* generators at the same index after the same seed are in the same state.
C2_Reproducible ==
    /\ (/\ call.op = "Next"
        /\ hist[call.gen].seeded
        /\ memo.n > 0
        /\ memo.seed = hist[call.gen].seed
        /\ memo.n = hist[call.gen].n)
       => memo.val = call.ret
    /\ \A g \in Generators : \A h \in Generators :
          (/\ hist[g].seeded
           /\ hist[h].seeded
           /\ hist[g].seed = hist[h].seed
           /\ hist[g].n = hist[h].n)
          => state[g] = state[h]

\* C2 witness: _random returned its second value after a seed, the value it
\* returned at index 2 after the same seed before it was reseeded.
C2_Witness ==
    /\ call.op = "Next"
    /\ call.gen = "_random"
    /\ memo.gen = "_random"
    /\ ~memo.fresh
    /\ memo.n = 2
    /\ hist["_random"].n = 2
    /\ memo.seed = hist["_random"].seed
    /\ memo.val = call.ret

\* C4: when RandomBytesWithFallback returns, every index of the buffer holds a
\* byte that was written, whichever path was taken; and a call that has begun
\* can always take its next step: it ends by returning, never by an error.
C4_BufferFilled ==
    \A t \in Threads :
        /\ pc[t] = "returned" =>
              \A i \in 1..Len(buf[t]) :
                  buf[t][i] # Unwritten /\ buf[t][i][1] \in 0..255
        /\ pc[t] \notin {"idle", "returned"} => ENABLED FallbackStep(t)

\* C4 witness: getrandom wrote one byte of two, the fallback ran, and the call
\* has returned.
C4_Witness ==
    /\ platform = "GLIBC"
    /\ pc["main"] = "returned"
    /\ Len(buf["main"]) = 2
    /\ res["main"] = 1
    /\ idx["main"] = 2

\* C7: Next() on state (s0, s1) leaves s0' = (s0 + rotr32(s1 XOR 0x1234567F, 7)
\* + 1) mod 2^32 and s1' = (rotr32(s0, 3) - 1) mod 2^32, both from the old s0
\* and s1, and returns s1'.
C7_NextRecurrence ==
    [][call'.op = "Next" =>
        LET g == call'.gen
            s0 == state[g][0]
            s1 == state[g][1]
        IN  /\ \E x \in {XorRef(s1, Word(4660, 22143))} :
               \E y \in {RotrRef(x, 7)} :
               \E z \in {AddRef(s0, y)} :
                   state'[g][0] = AddRef(z, Word(0, 1))
            /\ \E rot \in {RotrRef(s0, 3)} : state'[g][1] = DecRef(rot)
            /\ call'.ret = state'[g][1]]_vars

\* C7 witness: Next() was called with state[0] = 0 and returned 0xFFFFFFFF, and
\* state[0] is what 0 + rotr32(0xFFFFFFFF XOR 0x1234567F, 7) + 1 is: 0x01DB9754.
C7_Witness ==
    /\ call.op = "Next"
    /\ call.ret = Word(65535, 65535)
    /\ state[call.gen][0] = Word(475, 38740)

\* C8: at most one DEBUG call is made at level 0; the exchange hands each caller
\* the flag as it was and leaves it set, so every caller after the first logs
\* at level 1; warned_once never goes back to false.
C8_WarnOnce ==
    /\ [](debug_out[0] <= 1)
    /\ [][warned_once => warned_once']_vars
    /\ [][\A t \in Threads :
            /\ (pc[t] = "exchange" /\ pc'[t] = "debug") =>
                  (have_warned'[t] = warned_once /\ warned_once')
            /\ (pc[t] = "debug" /\ pc'[t] = "loop") =>
                  LET level == IF have_warned[t] THEN 1 ELSE 0
                  IN  debug_out' = [debug_out EXCEPT ![level] = @ + 1]]_vars

\* C8 witness: two callers are in the fallback loop at once, one has logged at
\* level 0 and the other at level 1.
C8_Witness ==
    /\ debug_out[0] = 1
    /\ debug_out[1] = 1
    /\ pc["main"] \in {"loop", "load_t", "store0", "store1"}
    /\ pc["worker"] \in {"loop", "load_t", "store0", "store1"}

\* C10: _random changes only in _random.Next(), _random.Next(limit),
\* _random.SetSeed and SetRandomSeed; no step of RandomBytesWithFallback and no
\* call on _interactive_random changes it. Only SetRandomSeed(seed) changes both
\* generators, and it leaves _random at (seed, seed) and _interactive_random at
\* (seed * 0x1234567 mod 2^32) in both words. Each byte the fallback loop writes
\* costs _interactive_random one Next() step.
C10_GameplayIsolated ==
    [][LET R == "_random"
           I == "_interactive_random"
       IN  /\ state'[R] # state[R] =>
                 /\ pc' = pc
                 /\ \/ call'.op = "SetRandomSeed"
                    \/ call'.op \in {"Next", "NextLimit", "SetSeed"} /\ call'.gen = R
           /\ pc' # pc => state'[R] = state[R]
           /\ (pc["main"] = "store1" /\ pc'["main"] = "loop") =>
                 /\ state'[I] = NextState(St(loc_s["main"], loc_t["main"]))
                 /\ idx'["main"] = idx["main"] + 1
                 /\ buf'["main"][idx'["main"]] # Unwritten
           /\ (pc' = pc /\ call'.gen = I) => state'[R] = state[R]
           /\ (state'[R] # state[R] /\ state'[I] # state[I]) => call'.op = "SetRandomSeed"
           /\ (pc' = pc /\ call'.op = "SetRandomSeed") =>
                 /\ state'[R] = St(call'.arg, call'.arg)
                 /\ state'[I] = St(Mul32(call'.arg, Word(291, 17767)),
                                   Mul32(call'.arg, Word(291, 17767)))]_vars

\* C10 witness: after SetRandomSeed(0xFFFFFFFF), a RandomBytesWithFallback call
\* took the fallback path for two bytes and returned: _interactive_random has
\* moved on from 0xFEDCBA99, _random is still (seed, seed).
C10_Witness ==
    /\ call.op = "SetRandomSeed"
    /\ call.arg = Word(65535, 65535)
    /\ pc["main"] = "returned"
    /\ idx["main"] = 2
    /\ state["_random"] = St(Word(65535, 65535), Word(65535, 65535))
    /\ state["_interactive_random"] # St(Word(65244, 47769), Word(65244, 47769))
    /\ hist["_interactive_random"].n = 2

\* The tile records m and n agree in every field but f.
SameBut(m, n, f) == \A k \in DOMAIN m : k # f => m[k] = n[k]

\* C3: a value within the field's width, written by a setter on a tile holding
\* anything, is the value the matching getter reads: SetTrackBits/GetTrackBits,
\* SetRailType/GetRailType, SetRailTypeCrossing/GetRailTypeCrossing,
\* SetRailTypeOnBridge/GetRailTypeOnBridge, SetSignalType/GetSignalType (on a
\* tile in signals mode, which it still is) and SetSignalVariant/GetSignalVariant.
C3_RoundTrip ==
    ~aborted =>
        /\ tcall.op = "SetTrackBits" => GetTrackBits(tile) = tcall.arg
        /\ tcall.op = "SetRailType" => GetRailType(tile) = tcall.arg
        /\ tcall.op = "SetRailTypeCrossing" => GetRailTypeCrossing(tile) = tcall.arg
        /\ tcall.op = "SetRailTypeOnBridge" => GetRailTypeOnBridge(tile) = tcall.arg
        /\ tcall.op = "SetSignalType" =>
              SignalsAsserted(tile) /\ GetSignalType(tile) = tcall.arg
        /\ tcall.op = "SetSignalVariant" => GetSignalVariant(tile) = tcall.arg

\* C3 witness: SetRailTypeOnBridge(10) on a tile whose rail type is 5 was read
\* back as 10, with the rail type still 5.
C3_Witness ==
    /\ tcall.op = "SetRailTypeOnBridge"
    /\ tcall.arg = 10
    /\ ~aborted
    /\ GetRailTypeOnBridge(tile) = 10
    /\ GetRailType(tile) = 5

\* C5: a setter writes its argument into its own bit range and changes nothing
\* else of the tile record: SetRailType m3 bits 0-3, SetRailTypeOnBridge m3 bits
\* 4-7, SetRailTypeCrossing m4 bits 0-3, SetTrackBits m5 bits 0-5 (the tag in
\* bits 6-7 stays), SetSignalType m4 bits 0-1, SetSignalVariant m4 bit 2,
\* SetCustomWaypointSprite and ClearCustomWaypointSprite m3 bit 4.
C5_SettersFrame ==
    [][~aborted' =>
        /\ tcall'.op = "SetRailType" =>
              /\ SameBut(tile', tile, "m3")
              /\ tile'.m3 \div 16 = tile.m3 \div 16
              /\ tile'.m3 % 16 = tcall'.arg
        /\ tcall'.op = "SetRailTypeOnBridge" =>
              /\ SameBut(tile', tile, "m3")
              /\ tile'.m3 % 16 = tile.m3 % 16
              /\ tile'.m3 \div 16 = tcall'.arg
        /\ tcall'.op = "SetRailTypeCrossing" =>
              /\ SameBut(tile', tile, "m4")
              /\ tile'.m4 \div 16 = tile.m4 \div 16
              /\ tile'.m4 % 16 = tcall'.arg
        /\ tcall'.op = "SetTrackBits" =>
              /\ SameBut(tile', tile, "m5")
              /\ tile'.m5 \div 64 = tile.m5 \div 64
              /\ tile'.m5 % 64 = tcall'.arg
        /\ tcall'.op = "SetSignalType" =>
              /\ SameBut(tile', tile, "m4")
              /\ tile'.m4 \div 4 = tile.m4 \div 4
              /\ tile'.m4 % 4 = tcall'.arg
        /\ tcall'.op = "SetSignalVariant" =>
              /\ SameBut(tile', tile, "m4")
              /\ tile'.m4 \div 8 = tile.m4 \div 8
              /\ tile'.m4 % 4 = tile.m4 % 4
              /\ (tile'.m4 \div 4) % 2 = tcall'.arg
        /\ tcall'.op \in {"SetCustomWaypointSprite", "ClearCustomWaypointSprite"} =>
              /\ SameBut(tile', tile, "m3")
              /\ tile'.m3 \div 32 = tile.m3 \div 32
              /\ tile'.m3 % 16 = tile.m3 % 16
              /\ (tile'.m3 \div 16) % 2 =
                    (IF tcall'.op = "SetCustomWaypointSprite" THEN 1 ELSE 0)]_vars

\* C5 witness: SetTrackBits(0) on a depot/waypoint tile cleared bits 0-5 and
\* left the tag RAIL_TYPE_DEPOT_WAYPOINT in bits 6-7.
C5_Witness ==
    /\ tcall.op = "SetTrackBits"
    /\ tcall.arg = 0
    /\ nops = 1
    /\ tile.m5 = 192
    /\ tile.m3 = 165

\* C6: every accessor of type-specific bits asserts the tag first: a call of
\* GetSignalType, SetSignalType, GetSignalVariant or SetSignalVariant on a rail
\* tile whose rail tile type is not RAIL_TYPE_SIGNALS, of GetRailDepotDirection
\* on a tile that is not a rail depot, of GetRailWaypointTrack or
\* GetRailWaypointBits on a tile that is not a rail waypoint, or of
\* GetRailTileType on a tile that is not MP_RAILWAY, ends in an assertion
\* failure.
C6_AccessorsAssert ==
    LET railway == tile.type = "MP_RAILWAY"
        tag == (tile.m5 \div 64) * 64
        subtype == ((tile.m5 \div 4) % 16) * 4
    IN  /\ (/\ tcall.op \in {"GetSignalType", "SetSignalType",
                             "GetSignalVariant", "SetSignalVariant"}
            /\ railway /\ tag # 64)
           => aborted
        /\ (/\ tcall.op = "GetRailDepotDirection"
            /\ ~(railway /\ tag = 192 /\ subtype = 0))
           => aborted
        /\ (/\ tcall.op \in {"GetRailWaypointTrack", "GetRailWaypointBits"}
            /\ ~(railway /\ tag = 192 /\ subtype = 4))
           => aborted
        /\ (tcall.op = "GetRailTileType" /\ ~railway) => aborted

\* C9: a constructor leaves a consistent tagged record whatever the tile held:
\* MakeRailNormal a RAIL_TYPE_NORMAL tile with the track bits and the rail type
\* given; MakeRailDepot a RAIL_TYPE_DEPOT_WAYPOINT tile of subtype depot with the
\* direction given; MakeRailWaypoint one of subtype waypoint with m2 the index
\* and the track of the axis; each with m4 = 0 and no rail type on bridge.
C9_Constructors ==
    /\ tcall.op = "MakeRailNormal" =>
          /\ tile.type = "MP_RAILWAY"
          /\ GetRailTileType(tile) = 0
          /\ GetTrackBits(tile) = tcall.arg[2]
          /\ GetRailType(tile) = tcall.arg[3]
          /\ tile.m4 = 0
          /\ GetRailTypeOnBridge(tile) = 0
    /\ tcall.op = "MakeRailDepot" =>
          /\ tile.type = "MP_RAILWAY"
          /\ GetRailTileType(tile) = 192
          /\ ((tile.m5 \div 4) % 16) * 4 = 0
          /\ GetRailDepotDirection(tile) = tcall.arg[2]
          /\ tile.m4 = 0
          /\ GetRailTypeOnBridge(tile) = 0
    /\ tcall.op = "MakeRailWaypoint" =>
          /\ tile.type = "MP_RAILWAY"
          /\ GetRailTileType(tile) = 192
          /\ ((tile.m5 \div 4) % 16) * 4 = 4
          /\ tile.m2 = tcall.arg[4]
          /\ GetRailWaypointTrack(tile) = (IF tcall.arg[2] = 0 THEN 0 ELSE 1)
          /\ tile.m4 = 0
          /\ GetRailTypeOnBridge(tile) = 0

\* C9 witness: MakeRailDepot(t, 16, 2, 3) on a tile that was not a rail tile
\* left a rail depot facing direction 2.
C9_Witness ==
    /\ tcall.op = "MakeRailDepot"
    /\ tcall.arg = <<16, 2, 3>>
    /\ tile.m5 = 194
    /\ tile.m3 = 3
    /\ tile.owner = 16
    /\ nops = 1

====
